---- MODULE Spec2Model ----
(***************************************************************************)
(* A model of the DiaBeatIt application: the React App component and its   *)
(* children (StartPage, ProfileForm, CareModeSelection, Dashboard,         *)
(* MealPlan), the axios service layer, and the relational schema.          *)
(*                                                                         *)
(* JavaScript null is the empty tuple and a non-null value v is <<v>>, so  *)
(* that a nullable variable always holds a tuple.  The same encoding is    *)
(* used for SQL NULL and for the empty string of a number input.           *)
(***************************************************************************)
EXTENDS Integers, Sequences, FiniteSets, TLC

VARIABLES
    currentStep,      \* App state
    userId,
    pendingProfile,
    fullProfile,
    healthMetrics,
    mealPlan,
    loading,
    error,
    isChatOpen,
    selectedMode,     \* CareModeSelection state (lost when it unmounts)
    localStorage,     \* browser storage, one entry per diabeatit_ key
    registerRequests, \* userApi.register calls awaiting their response
    mealPlanRequests, \* mealPlanApi.generateDaily calls awaiting their response
    registered,       \* number of users the server has created
    lastOp,           \* the handler that ran last and its outcome
    users,            \* tables of schema.sql
    user_health_profiles,
    user_preferences,
    meal_logs,
    chat_history,
    sqlResult,        \* outcome of the last SQL statement
    messages,         \* ChatBox state
    input,
    chatLoading,      \* ChatBox's own loading flag
    showSuggestions,
    chatRequests,     \* chatApi.sendMessage calls awaiting their response
    chatResets        \* chatApi.resetChat calls awaiting their response

appVars == <<currentStep, userId, pendingProfile, fullProfile, healthMetrics,
             mealPlan, loading, error, isChatOpen, selectedMode, localStorage,
             registerRequests, mealPlanRequests, registered, lastOp>>

dbVars == <<users, user_health_profiles, user_preferences, meal_logs,
            chat_history, sqlResult>>

chatVars == <<messages, input, chatLoading, showSuggestions, chatRequests,
              chatResets>>

vars == <<appVars, dbVars, chatVars>>

null == <<>>

Some(v) == <<v>>

Val(o) == o[1]

\* A sequence without its i-th element.
RemoveAt(s, i) == SubSeq(s, 1, i - 1) \o SubSeq(s, i + 1, Len(s))

(***************************************************************************)
(* Bounds of the model.                                                    *)
(***************************************************************************)
MaxRegistrations == 2

MaxRowId == 1

\* The longest conversation the ChatBox holds, and the resetChat calls it
\* awaits at once.
MaxChatMessages == 4

MaxChatResets == 1

(***************************************************************************)
(* App constants.                                                          *)
(***************************************************************************)
STEPS == [START |-> 0, PROFILE |-> 1, CARE_MODE |-> 2, DASHBOARD |-> 3,
          METRICS |-> 4, MEAL_PLAN |-> 5]

DEFAULT_PROFILE == [height_cm |-> 170, weight_kg |-> 70, activity_level |-> 2,
                    exercise_freq_per_week |-> 2, diabetic_type |-> "type2"]

MODES == {"prediabetic", "type2", "type1"}

DIABETIC_TYPES == {"type2", "type1", "prediabetic", "gestational"}

MEAL_TYPES == {"breakfast", "lunch", "dinner", "snacks"}

StorageKeys == {"step", "userId", "pendingProfile", "fullProfile", "metrics",
                "mealPlan"}

RegistrationFailedMessage == "Registration failed, please try again later"

\* The interceptor's message for rate limit and quota errors (without its
\* leading warning sign).
QuotaMessage == "AI Service Usage Limit Reached. Please try again later."

(***************************************************************************)
(* What the user can type into the number inputs of ProfileForm: nothing   *)
(* (the empty tuple) or a number.  A number input has no min or max, so    *)
(* negative numbers are among them.  The sample values are whole numbers   *)
(* whose conversions are exact in floating point and away from a .5 tie.   *)
(***************************************************************************)
FeetTyped == {<<>>, <<2>>, <<5>>, <<9>>}

InchesTyped == {<<>>, <<7>>, <<-70>>}

PoundsTyped == {<<>>, <<49>>, <<150>>, <<701>>}

ExerciseOptions == {0, 2}

(***************************************************************************)
(* What the server can answer.                                             *)
(***************************************************************************)
CarbLimits == {130, 200}

\* Meal plans in the nested format { meal_plan: { breakfast: {...}, ... } }:
\* each meal is missing (the empty tuple) or carries its total_carbs.
MealPlans ==
    { [meal_plan |-> [breakfast |-> <<30>>, lunch |-> <<45>>, dinner |-> <<40>>, snacks |-> <<>>]],
      [meal_plan |-> [breakfast |-> <<60>>, lunch |-> <<60>>, dinner |-> <<60>>, snacks |-> <<15>>]] }

\* The bodies POST /meal-plan/{userId} can answer with.
MealPlanResponses == { [meal_plan |-> plan] : plan \in MealPlans }

\* The bodies the "Generate Meal Plan" request is answered with: a plan, or
\* a meal_plan object whose error is set, with or without a message.
GenerateDailyResponses ==
    { [meal_plan |-> plan, error |-> FALSE, message |-> null] : plan \in MealPlans }
      \cup { [meal_plan |-> [meal_plan |-> [breakfast |-> <<>>, lunch |-> <<>>,
                                            dinner |-> <<>>, snacks |-> <<>>]],
              error |-> TRUE, message |-> m] : m \in {null, Some("No recipes found")} }

GenerateFailedMessage == "Failed to generate meal plan"

\* Raw axios errors, before the response interceptor: a network failure has
\* no response; a response carries a status and a body that is an object
\* (with or without detail), a string, or empty.
RegisterErrors ==
    { [response |-> null, message |-> "Network Error"],
      [response |-> Some([status |-> 422, data |-> "object", detail |-> Some("Invalid profile")]),
       message |-> "Request failed with status code 422"],
      [response |-> Some([status |-> 500, data |-> "object", detail |-> null]),
       message |-> "Request failed with status code 500"],
      [response |-> Some([status |-> 502, data |-> "string", detail |-> null]),
       message |-> "Request failed with status code 502"],
      [response |-> Some([status |-> 503, data |-> "object", detail |-> Some("Resource exhausted")]),
       message |-> "Request failed with status code 503"],
      [response |-> Some([status |-> 429, data |-> "none", detail |-> null]),
       message |-> "Request failed with status code 429"] }

\* The messages that mention "quota", "limit" or "resource exhausted".
QuotaTexts == {"Resource exhausted"}

(***************************************************************************)
(* ProfileForm.                                                            *)
(***************************************************************************)
\* Math.round(num / den) for den > 0: the nearest integer, ties upwards.
MathRound(num, den) == (2 * num + den) \div (2 * den)

\* Number(s || 0) of a number input's text.
NumberOr0(s) == IF s = <<>> THEN 0 ELSE s[1]

validate(heightFt, weightLbs) ==
    LET heightError == heightFt = <<>> \/ heightFt[1] < 3 \/ heightFt[1] > 8
        weightError == weightLbs = <<>> \/ weightLbs[1] < 50 \/ weightLbs[1] > 700
    IN  ~heightError /\ ~weightError

\* The object handleSubmit passes to onSubmit.
profileData(profile, heightFt, heightIn, weightLbs) ==
    LET totalInches == heightFt[1] * 12 + NumberOr0(heightIn)
        heightCm == MathRound(totalInches * 254, 100)
        weightKg == MathRound(weightLbs[1] * 100000, 220462)
    IN  [profile EXCEPT !.height_cm = heightCm, !.weight_kg = weightKg]

(***************************************************************************)
(* services/api.js.                                                        *)
(***************************************************************************)
\* The response interceptor's error branch: the error as the caller's
\* catch block sees it.
ResponseInterceptor(err) ==
    LET raw == IF err.response # null /\ Val(err.response).detail # null
               THEN Val(Val(err.response).detail) ELSE err.message
        isQuotaError == \/ err.response # null /\ Val(err.response).status = 429
                        \/ raw \in QuotaTexts
        errorMessage == IF isQuotaError THEN QuotaMessage ELSE raw
    IN  IF err.response # null
        THEN LET r == Val(err.response)
                 data == IF r.data = "none" THEN "object" ELSE r.data
             IN  [response |-> Some([r EXCEPT !.data = data,
                                              !.detail = IF data = "object"
                                                         THEN Some(errorMessage)
                                                         ELSE r.detail]),
                  message |-> err.message]
        ELSE [response |-> null, message |-> errorMessage]

\* err.response?.data?.detail
DetailOf(err) ==
    IF err.response = null THEN null
    ELSE IF Val(err.response).data # "object" THEN null
    ELSE Val(err.response).detail

\* What POST /register answers for a profile: the id of the user it created
\* and the metrics it computed for that profile.
RegisterResponse(profile, id, limit) ==
    [user_id |-> id,
     health_metrics |-> [profile |-> profile, daily_carbs_limit |-> limit]]

(***************************************************************************)
(* MealPlan.                                                               *)
(***************************************************************************)
\* mealData?.total_carbs || 0 for the meal of a key.
MealCarbs(plan, key) ==
    LET mealData == plan.meal_plan[key]
    IN  IF mealData = <<>> THEN 0 ELSE mealData[1]

\* The reduce over MEAL_TYPES.
totalCarbs(plan) ==
    MealCarbs(plan, "breakfast") + MealCarbs(plan, "lunch")
      + MealCarbs(plan, "dinner") + MealCarbs(plan, "snacks")

\* The indicator under the progress bar.
CarbIndicator(plan, dailyCarbsLimit) ==
    IF totalCarbs(plan) <= dailyCarbsLimit
    THEN "Within daily carb limit" ELSE "Exceeds daily carb limit"

(***************************************************************************)
(* App: persistence.                                                       *)
(***************************************************************************)
\* A stored text is a record: ok tells whether JSON.parse accepts it, json is
\* the value it denotes.  The App only stringifies integers, null, strings
\* and plain objects of these, which JSON.parse gives back unchanged.
JSONstringify(v) == [ok |-> TRUE, json |-> v]

JSONparse(s) == s.json

\* A text JSON.parse throws on.
Unparseable == [ok |-> FALSE, json |-> null]

\* loadState(key, defaultValue) over a storage ls: the default when the key
\* is missing or when JSON.parse throws.
loadState(ls, key, defaultValue) ==
    IF ls[key] = null THEN defaultValue
    ELSE IF Val(ls[key]).ok THEN JSONparse(Val(ls[key]))
    ELSE defaultValue

\* The persistence effects that run on mount: every key is written.
MountEffects(step, uid, pending, full, metrics, plan) ==
    [k \in StorageKeys |->
        Some(JSONstringify(CASE k = "step" -> step
                             [] k = "userId" -> uid
                             [] k = "pendingProfile" -> pending
                             [] k = "fullProfile" -> full
                             [] k = "metrics" -> metrics
                             [] k = "mealPlan" -> plan))]

\* An effect with an empty dependency array: it runs on mount only.
EffectOnMountOnly(old, new) == FALSE

\* Whether an effect runs after a render: its dependency changed.
EffectRuns(old, new) == new # old

\* The persistence effects that run after a render, over a storage ls: each
\* effect runs only if its dependency changed.
RunEffects(ls) ==
    [k \in StorageKeys |->
        CASE k = "step" ->
               IF EffectRuns(currentStep, currentStep') THEN Some(JSONstringify(currentStep')) ELSE ls[k]
          [] k = "userId" ->
               IF EffectRuns(userId, userId') THEN Some(JSONstringify(userId')) ELSE ls[k]
          [] k = "pendingProfile" ->
               IF EffectRuns(pendingProfile, pendingProfile') THEN Some(JSONstringify(pendingProfile')) ELSE ls[k]
          [] k = "fullProfile" ->
               IF EffectRuns(fullProfile, fullProfile') THEN Some(JSONstringify(fullProfile')) ELSE ls[k]
          [] k = "metrics" ->
               IF EffectRuns(healthMetrics, healthMetrics') THEN Some(JSONstringify(healthMetrics')) ELSE ls[k]
          [] k = "mealPlan" ->
               IF EffectRuns(mealPlan, mealPlan') THEN Some(JSONstringify(mealPlan')) ELSE ls[k]]

\* CareModeSelection keeps its selection only while it stays mounted.
SelectedAfter(step) ==
    IF currentStep = STEPS.CARE_MODE /\ step = STEPS.CARE_MODE
    THEN selectedMode ELSE null

(***************************************************************************)
(* App: initial state, a first visit with an empty localStorage.           *)
(***************************************************************************)
AppInit ==
    /\ currentStep = STEPS.START
    /\ userId = null
    /\ pendingProfile = null
    /\ fullProfile = null
    /\ healthMetrics = null
    /\ mealPlan = null
    /\ loading = FALSE
    /\ error = null
    /\ isChatOpen = FALSE
    /\ selectedMode = null
    /\ localStorage = MountEffects(STEPS.START, null, null, null, null, null)
    /\ registerRequests = <<>>
    /\ mealPlanRequests = <<>>
    /\ registered = 0
    /\ lastOp = "mount"

DbInit ==
    /\ users = {}
    /\ user_health_profiles = {}
    /\ user_preferences = {}
    /\ meal_logs = {}
    /\ chat_history = {}
    /\ sqlResult = "none"

\* A ChatBox as it is constructed.
ChatInit ==
    /\ messages = <<>>
    /\ input = ""
    /\ chatLoading = FALSE
    /\ showSuggestions = TRUE
    /\ chatRequests = <<>>
    /\ chatResets = 0

Init == AppInit /\ DbInit /\ ChatInit

(***************************************************************************)
(* App: handlers.                                                          *)
(***************************************************************************)
\* StartPage "Get Started".
onStart ==
    /\ currentStep = STEPS.START
    /\ currentStep' = STEPS.PROFILE
    /\ selectedMode' = SelectedAfter(STEPS.PROFILE)
    /\ lastOp' = "onStart"
    /\ UNCHANGED <<userId, pendingProfile, fullProfile, healthMetrics, mealPlan,
                   loading, error, isChatOpen, registerRequests,
                   mealPlanRequests, registered>>
    /\ localStorage' = RunEffects(localStorage)
    /\ UNCHANGED <<dbVars, chatVars>>

\* ProfileForm.handleSubmit on a form holding the given texts, followed by
\* App.handleProfileSubmit when the form validates.  The submit button is
\* disabled while loading.
handleSubmit(exercise, heightFt, heightIn, weightLbs) ==
    /\ currentStep = STEPS.PROFILE
    /\ ~loading
    /\ IF validate(heightFt, weightLbs)
       THEN /\ pendingProfile' =
                 Some(profileData([DEFAULT_PROFILE EXCEPT !.exercise_freq_per_week = exercise],
                                  heightFt, heightIn, weightLbs))
            /\ currentStep' = STEPS.CARE_MODE
            /\ lastOp' = "handleProfileSubmit"
       ELSE /\ UNCHANGED <<pendingProfile, currentStep>>
            /\ lastOp' = "validationFailed"
    /\ selectedMode' = SelectedAfter(currentStep')
    /\ UNCHANGED <<userId, fullProfile, healthMetrics, mealPlan, loading, error,
                   isChatOpen, registerRequests, mealPlanRequests, registered>>
    /\ localStorage' = RunEffects(localStorage)
    /\ UNCHANGED <<dbVars, chatVars>>

\* A click on one of the mode cards of CareModeSelection.
setSelectedMode(mode) ==
    /\ currentStep = STEPS.CARE_MODE
    /\ selectedMode' = Some(mode)
    /\ lastOp' = "setSelectedMode"
    /\ UNCHANGED <<currentStep, userId, pendingProfile, fullProfile,
                   healthMetrics, mealPlan, loading, error, isChatOpen,
                   localStorage, registerRequests, mealPlanRequests, registered>>
    /\ UNCHANGED <<dbVars, chatVars>>

\* A button that is not disabled while loading.
ContinueEnabledWhileLoading == ~(selectedMode = null)

\* Whether the "Continue to Dashboard" button of CareModeSelection accepts a click.
ContinueEnabled == ~(selectedMode = null \/ loading)

\* "Continue to Dashboard": CareModeSelection.handleSubmit, then
\* App.handleCareModeSelect up to its await.
handleCareModeSelect ==
    /\ currentStep = STEPS.CARE_MODE
    /\ ContinueEnabled
    /\ selectedMode # null
    /\ registered + Len(registerRequests) < MaxRegistrations
    /\ IF pendingProfile = null
       THEN /\ UNCHANGED <<loading, error, fullProfile, registerRequests>>
            /\ lastOp' = "handleCareModeSelect:return"
       ELSE LET completeProfile ==
                    [Val(pendingProfile) EXCEPT !.diabetic_type = Val(selectedMode)]
            IN  /\ loading' = TRUE
                /\ error' = null
                /\ fullProfile' = Some(completeProfile)
                /\ registerRequests' = Append(registerRequests, completeProfile)
                /\ lastOp' = "handleCareModeSelect:register"
    /\ UNCHANGED <<currentStep, userId, pendingProfile, healthMetrics, mealPlan,
                   isChatOpen, selectedMode, mealPlanRequests, registered>>
    /\ localStorage' = RunEffects(localStorage)
    /\ UNCHANGED <<dbVars, chatVars>>

\* A handleReset that forgets the metrics.
ResetKeepingHealthMetrics == healthMetrics

\* The metrics handleReset leaves behind.
ResetHealthMetrics == null

\* A background request that reads the App's userId, which the handler's
\* closure still holds as it was before the register request.
StaleUserId(response) == IF userId = null THEN 0 ELSE Val(userId)

\* The user the background generateDaily is sent for.
BackgroundUserId(response) == response.user_id

\* handleCareModeSelect after a successful register response.
registerResolved(limit) ==
    /\ registerRequests # <<>>
    /\ LET response == RegisterResponse(Head(registerRequests), registered + 1, limit)
       IN  /\ userId' = Some(response.user_id)
           /\ healthMetrics' = Some(response.health_metrics)
           /\ currentStep' = STEPS.DASHBOARD
           /\ mealPlanRequests' =
                 Append(mealPlanRequests,
                        [user_id |-> BackgroundUserId(response), from |-> "background"])
    /\ registerRequests' = Tail(registerRequests)
    /\ registered' = registered + 1
    /\ loading' = FALSE
    /\ selectedMode' = SelectedAfter(STEPS.DASHBOARD)
    /\ lastOp' = "register:resolved"
    /\ UNCHANGED <<pendingProfile, fullProfile, mealPlan, error, isChatOpen>>
    /\ localStorage' = RunEffects(localStorage)
    /\ UNCHANGED <<dbVars, chatVars>>

\* A catch block that leaves the step alone.
RejectedStepUnchanged == currentStep

\* The step the catch block of handleCareModeSelect returns to.
RejectedStep == STEPS.CARE_MODE

\* handleCareModeSelect after a failed register request.
registerRejected(rawError) ==
    /\ registerRequests # <<>>
    /\ LET err == ResponseInterceptor(rawError)
       IN  error' = IF DetailOf(err) # null THEN DetailOf(err)
                    ELSE Some(RegistrationFailedMessage)
    /\ currentStep' = RejectedStep
    /\ loading' = FALSE
    /\ registerRequests' = Tail(registerRequests)
    /\ selectedMode' = SelectedAfter(currentStep')
    /\ lastOp' = "register:rejected"
    /\ UNCHANGED <<userId, pendingProfile, fullProfile, healthMetrics, mealPlan,
                   isChatOpen, mealPlanRequests, registered>>
    /\ localStorage' = RunEffects(localStorage)
    /\ UNCHANGED <<dbVars, chatVars>>

\* The .then of the background generateDaily of handleCareModeSelect.
backgroundMealPlanResolved(mealResponse) ==
    /\ \E i \in 1..Len(mealPlanRequests) :
          /\ mealPlanRequests[i].from = "background"
          /\ mealPlanRequests' = RemoveAt(mealPlanRequests, i)
    /\ mealPlan' = Some(mealResponse.meal_plan)
    /\ lastOp' = "generateDaily:resolved"
    /\ UNCHANGED <<currentStep, userId, pendingProfile, fullProfile,
                   healthMetrics, loading, error, isChatOpen, selectedMode,
                   registerRequests, registered>>
    /\ localStorage' = RunEffects(localStorage)
    /\ UNCHANGED <<dbVars, chatVars>>

\* The .catch of the background generateDaily: the failure is only logged.
backgroundMealPlanRejected ==
    /\ \E i \in 1..Len(mealPlanRequests) :
          /\ mealPlanRequests[i].from = "background"
          /\ mealPlanRequests' = RemoveAt(mealPlanRequests, i)
    /\ lastOp' = "generateDaily:rejected"
    /\ UNCHANGED <<currentStep, userId, pendingProfile, fullProfile,
                   healthMetrics, mealPlan, loading, error, isChatOpen,
                   selectedMode, localStorage, registerRequests, registered>>
    /\ UNCHANGED <<dbVars, chatVars>>

\* Where a Back button is rendered: ProfileForm, CareModeSelection and the
\* metrics view.
BackEnabled ==
    \/ currentStep \in {STEPS.PROFILE, STEPS.CARE_MODE}
    \/ currentStep = STEPS.METRICS /\ healthMetrics # null

\* A handleBack whose chain skips the Dashboard.
PreviousStepSkippingDashboard(step) ==
    CASE step = STEPS.MEAL_PLAN -> STEPS.METRICS
      [] step = STEPS.METRICS -> STEPS.CARE_MODE
      [] step = STEPS.DASHBOARD -> STEPS.CARE_MODE
      [] step = STEPS.CARE_MODE -> STEPS.PROFILE
      [] step = STEPS.PROFILE -> STEPS.START
      [] OTHER -> step

\* The if / else-if chain of handleBack.
PreviousStep(step) ==
    CASE step = STEPS.MEAL_PLAN -> STEPS.METRICS
      [] step = STEPS.METRICS -> STEPS.DASHBOARD
      [] step = STEPS.DASHBOARD -> STEPS.CARE_MODE
      [] step = STEPS.CARE_MODE -> STEPS.PROFILE
      [] step = STEPS.PROFILE -> STEPS.START
      [] OTHER -> step

\* handleBack, on whatever step the App shows.
handleBackAnyStep ==
    /\ currentStep \in {STEPS[n] : n \in DOMAIN STEPS}
    /\ currentStep' = PreviousStep(currentStep)
    /\ selectedMode' = SelectedAfter(currentStep')
    /\ lastOp' = "handleBack"
    /\ UNCHANGED <<userId, pendingProfile, fullProfile, healthMetrics, mealPlan,
                   loading, error, isChatOpen, registerRequests,
                   mealPlanRequests, registered>>
    /\ localStorage' = RunEffects(localStorage)
    /\ UNCHANGED <<dbVars, chatVars>>

\* A click on a Back button.
handleBack ==
    /\ BackEnabled
    /\ currentStep' = PreviousStep(currentStep)
    /\ selectedMode' = SelectedAfter(currentStep')
    /\ lastOp' = "handleBack"
    /\ UNCHANGED <<userId, pendingProfile, fullProfile, healthMetrics, mealPlan,
                   loading, error, isChatOpen, registerRequests,
                   mealPlanRequests, registered>>
    /\ localStorage' = RunEffects(localStorage)
    /\ UNCHANGED <<dbVars, chatVars>>

\* Where "Start Over" is rendered: the Dashboard and the meal plan view.
ResetEnabled ==
    \/ currentStep = STEPS.DASHBOARD
    \/ currentStep = STEPS.MEAL_PLAN /\ mealPlan # null

\* A handleReset that leaves the error banner.
ResetErrorKept == error

\* setError(null) of handleReset.
ResetError == null

\* A handleReset that leaves the chat widget as it is.
ResetIsChatOpenKept == isChatOpen

\* setIsChatOpen(false) of handleReset.
ResetIsChatOpen == FALSE

handleReset ==
    /\ ResetEnabled
    /\ currentStep' = STEPS.START
    /\ userId' = null
    /\ pendingProfile' = null
    /\ fullProfile' = null
    /\ healthMetrics' = ResetHealthMetrics
    /\ mealPlan' = null
    /\ error' = ResetError
    /\ isChatOpen' = ResetIsChatOpen
    /\ selectedMode' = SelectedAfter(STEPS.START)
    /\ lastOp' = "handleReset"
    /\ UNCHANGED <<loading, registerRequests, mealPlanRequests, registered>>
    /\ localStorage' = RunEffects([k \in StorageKeys |-> null])
    /\ UNCHANGED <<dbVars, chatVars>>

\* Whether the persistent chat widget is rendered.
ChatWidgetVisible == userId # null /\ currentStep = STEPS.DASHBOARD

\* The widget's floating action button and its close button.
setIsChatOpen(open) ==
    /\ ChatWidgetVisible
    /\ open \in {~isChatOpen, FALSE}
    /\ isChatOpen' = open
    /\ lastOp' = "setIsChatOpen"
    /\ UNCHANGED <<currentStep, userId, pendingProfile, fullProfile,
                   healthMetrics, mealPlan, loading, error, selectedMode,
                   localStorage, registerRequests, mealPlanRequests, registered>>
    /\ UNCHANGED <<dbVars, chatVars>>

\* A handler without its finally block.
GeneratedLoadingKept == loading

\* The finally block of handleGenerateMealPlan.
GeneratedLoading == FALSE

\* Whether the "Generate Meal Plan" button of the metrics view accepts a
\* click: the view is rendered on METRICS with healthMetrics set, the button
\* is disabled while loading.
GenerateEnabled ==
    currentStep = STEPS.METRICS /\ healthMetrics # null /\ ~loading

\* "Generate Meal Plan": handleGenerateMealPlan up to its await.
handleGenerateMealPlan ==
    /\ GenerateEnabled
    /\ IF userId = null
       THEN /\ UNCHANGED <<loading, error, mealPlanRequests>>
            /\ lastOp' = "handleGenerateMealPlan:return"
       ELSE /\ loading' = TRUE
            /\ error' = null
            /\ mealPlanRequests' =
                  Append(mealPlanRequests, [user_id |-> Val(userId), from |-> "manual"])
            /\ lastOp' = "handleGenerateMealPlan:request"
    /\ UNCHANGED <<currentStep, userId, pendingProfile, fullProfile,
                   healthMetrics, mealPlan, isChatOpen, selectedMode,
                   localStorage, registerRequests, registered>>
    /\ UNCHANGED <<dbVars, chatVars>>

\* A handler that shows the plan it was answered with even when the answer
\* is an error.
GeneratedStepAlways(response) == STEPS.MEAL_PLAN

\* The step after the try block of handleGenerateMealPlan: the throw on
\* response.meal_plan?.error skips setCurrentStep.
GeneratedStep(response) ==
    IF response.error THEN currentStep ELSE STEPS.MEAL_PLAN

\* handleGenerateMealPlan after its request was answered.
generateDailyResolved(response) ==
    /\ \E i \in 1..Len(mealPlanRequests) :
          /\ mealPlanRequests[i].from = "manual"
          /\ mealPlanRequests' = RemoveAt(mealPlanRequests, i)
    /\ IF response.error
       THEN /\ error' = IF response.message # null THEN response.message
                        ELSE Some(GenerateFailedMessage)
            /\ UNCHANGED mealPlan
            /\ lastOp' = "handleGenerateMealPlan:error"
       ELSE /\ mealPlan' = Some(response.meal_plan)
            /\ UNCHANGED error
            /\ lastOp' = "handleGenerateMealPlan:resolved"
    /\ currentStep' = GeneratedStep(response)
    /\ loading' = GeneratedLoading
    /\ selectedMode' = SelectedAfter(currentStep')
    /\ UNCHANGED <<userId, pendingProfile, fullProfile, healthMetrics,
                   isChatOpen, registerRequests, registered>>
    /\ localStorage' = RunEffects(localStorage)
    /\ UNCHANGED <<dbVars, chatVars>>

\* handleGenerateMealPlan after its request failed: err.message comes first.
generateDailyRejected(rawError) ==
    /\ \E i \in 1..Len(mealPlanRequests) :
          /\ mealPlanRequests[i].from = "manual"
          /\ mealPlanRequests' = RemoveAt(mealPlanRequests, i)
    /\ LET err == ResponseInterceptor(rawError)
       IN  error' = IF err.message # "" THEN Some(err.message)
                    ELSE IF DetailOf(err) # null THEN DetailOf(err)
                    ELSE Some(GenerateFailedMessage)
    /\ loading' = GeneratedLoading
    /\ lastOp' = "handleGenerateMealPlan:rejected"
    /\ UNCHANGED <<currentStep, userId, pendingProfile, fullProfile,
                   healthMetrics, mealPlan, isChatOpen, selectedMode,
                   localStorage, registerRequests, registered>>
    /\ UNCHANGED <<dbVars, chatVars>>

\* The page is reloaded: the App is built again from localStorage, the
\* pending requests of the old page are abandoned.
reload ==
    /\ currentStep' = loadState(localStorage, "step", STEPS.START)
    /\ userId' = loadState(localStorage, "userId", null)
    /\ pendingProfile' = loadState(localStorage, "pendingProfile", null)
    /\ fullProfile' = loadState(localStorage, "fullProfile", null)
    /\ healthMetrics' = loadState(localStorage, "metrics", null)
    /\ mealPlan' = loadState(localStorage, "mealPlan", null)
    /\ loading' = FALSE
    /\ error' = null
    /\ isChatOpen' = FALSE
    /\ selectedMode' = null
    /\ registerRequests' = <<>>
    /\ mealPlanRequests' = <<>>
    /\ lastOp' = "mount"
    /\ localStorage' = MountEffects(currentStep', userId', pendingProfile',
                                    fullProfile', healthMetrics', mealPlan')
    /\ UNCHANGED registered
    /\ UNCHANGED <<dbVars, chatVars>>

Next ==
    \/ onStart
    \/ \E ex \in ExerciseOptions, ft \in FeetTyped, inch \in InchesTyped, lbs \in PoundsTyped :
          handleSubmit(ex, ft, inch, lbs)
    \/ \E mode \in MODES : setSelectedMode(mode)
    \/ handleCareModeSelect
    \/ \E limit \in CarbLimits : registerResolved(limit)
    \/ \E rawError \in RegisterErrors : registerRejected(rawError)
    \/ \E mealResponse \in MealPlanResponses : backgroundMealPlanResolved(mealResponse)
    \/ backgroundMealPlanRejected
    \/ handleBack
    \/ handleReset
    \/ \E open \in BOOLEAN : setIsChatOpen(open)
    \/ reload

Spec == Init /\ [][Next]_vars

(***************************************************************************)
(* The App opened on a browser whose localStorage was written earlier.     *)
(* Before the page loads there is no App (currentStep is NoStep); the      *)
(* first step is reload, which builds the App from the stored content.     *)
(* The stored content is that of a registered user on any step, with at    *)
(* most one entry missing or unparseable.                                  *)
(***************************************************************************)
NoStep == -1

StoredProfile == profileData(DEFAULT_PROFILE, <<5>>, <<7>>, <<150>>)

StoredMetrics == RegisterResponse(StoredProfile, 1, 130).health_metrics

StoredPlan ==
    [meal_plan |-> [breakfast |-> <<30>>, lunch |-> <<45>>, dinner |-> <<40>>, snacks |-> <<>>]]

\* What the persistence effects left for a user on the given step.
StoredSnapshot(step, plan) ==
    MountEffects(step, Some(1), Some(StoredProfile), Some(StoredProfile),
                 Some(StoredMetrics), plan)

StoredContents ==
    UNION { LET snapshot == StoredSnapshot(STEPS[n], plan)
            IN  {snapshot}
                  \cup { [snapshot EXCEPT ![k] = entry] :
                           k \in StorageKeys, entry \in {null, Some(Unparseable)} } :
            n \in DOMAIN STEPS, plan \in {null, Some(StoredPlan)} }

StoredInit ==
    /\ localStorage \in StoredContents
    /\ currentStep = NoStep
    /\ userId = null
    /\ pendingProfile = null
    /\ fullProfile = null
    /\ healthMetrics = null
    /\ mealPlan = null
    /\ loading = FALSE
    /\ error = null
    /\ isChatOpen = FALSE
    /\ selectedMode = null
    /\ registerRequests = <<>>
    /\ mealPlanRequests = <<>>
    /\ registered = 1
    /\ lastOp = "closed"
    /\ DbInit
    /\ ChatInit

\* The actions of Next, the form submitted empty or with one set of texts,
\* and the handlers of the metrics view.
StoredNext ==
    \/ onStart
    \/ \E ft \in {<<>>, <<5>>} : handleSubmit(2, ft, <<7>>, <<150>>)
    \/ \E mode \in MODES : setSelectedMode(mode)
    \/ handleCareModeSelect
    \/ \E limit \in CarbLimits : registerResolved(limit)
    \/ \E rawError \in RegisterErrors : registerRejected(rawError)
    \/ \E mealResponse \in MealPlanResponses : backgroundMealPlanResolved(mealResponse)
    \/ backgroundMealPlanRejected
    \/ handleBack
    \/ handleReset
    \/ \E open \in BOOLEAN : setIsChatOpen(open)
    \/ reload
    \/ handleBackAnyStep
    \/ handleGenerateMealPlan
    \/ \E response \in GenerateDailyResponses : generateDailyResolved(response)
    \/ \E rawError \in RegisterErrors : generateDailyRejected(rawError)

SpecStored == StoredInit /\ [][StoredNext]_vars

\* A response to a request that holds the loading flag: the server answers
\* every request it is sent.
LoadingResponse ==
    \/ \E limit \in CarbLimits : registerResolved(limit)
    \/ \E rawError \in RegisterErrors : registerRejected(rawError)
    \/ \E response \in GenerateDailyResponses : generateDailyResolved(response)
    \/ \E rawError \in RegisterErrors : generateDailyRejected(rawError)

SpecStoredFair == SpecStored /\ WF_vars(LoadingResponse)

(***************************************************************************)
(* schema.sql.  A row is a record of its key columns and constrained       *)
(* columns; a column value is NULL (the empty tuple) or <<v>>.  Foreign    *)
(* keys are enforced as declared.                                          *)
(***************************************************************************)
UserIdValues == {"u1", "u2"}

EmailValues == {<<>>, <<"a@x">>, <<"b@x">>}

RowIds == 1..MaxRowId

\* Values an INSERT or UPDATE of user_health_profiles may carry.
UserIdColumn == {<<>>} \cup {<<u>> : u \in UserIdValues}

HeightValues == {<<>>, <<0>>, <<170>>}

WeightValues == {<<>>, <<-1>>, <<70>>}

ActivityValues == {<<>>, <<0>>, <<1>>, <<4>>, <<5>>}

ExerciseValues == {<<>>, <<-1>>, <<3>>}

DiabeticTypeValues == {<<>>, <<"type2">>, <<"keto">>}

\* A well-formed profile.
BaseProfileColumns ==
    [user_id |-> <<"u1">>, height_cm |-> <<170>>, weight_kg |-> <<70>>,
     activity_level |-> <<2>>, exercise_freq_per_week |-> <<2>>,
     diabetic_type |-> <<"type1">>]

\* The column values of the statements: a well-formed profile of any owner
\* with at most one other column changed.
ProfileColumns ==
    UNION { { [b EXCEPT !.height_cm = v] : v \in HeightValues }
            \cup { [b EXCEPT !.weight_kg = v] : v \in WeightValues }
            \cup { [b EXCEPT !.activity_level = v] : v \in ActivityValues }
            \cup { [b EXCEPT !.exercise_freq_per_week = v] : v \in ExerciseValues }
            \cup { [b EXCEPT !.diabetic_type = v] : v \in DiabeticTypeValues }
            : b \in { [BaseProfileColumns EXCEPT !.user_id = u] : u \in UserIdColumn } }

\* One well-formed profile per user, for the statements of the cascade.
SampleProfileColumns ==
    { [BaseProfileColumns EXCEPT !.user_id = u] : u \in UserIdColumn }

\* PRIMARY KEY: no other row of the table has this id.
PrimaryKeyFree(table, id) == \A r \in table : r.id # id

\* FOREIGN KEY (user_id) REFERENCES users(id); a NULL key references nothing
\* and is left to NOT NULL.
ForeignKeyHolds(user_id) ==
    user_id = null \/ \E u \in users : u.id = Val(user_id)

\* The column constraints of users.
UsersConstraints(row) ==
    /\ row.email # null
    /\ \A u \in users : u.email # row.email

\* A table declared without the CHECK on activity_level.
ProfileNoCheckActivity(cols) == TRUE

\* The column and table constraints of user_health_profiles.
ProfileCheckActivity(cols) ==
    cols.activity_level = null
      \/ (Val(cols.activity_level) >= 1 /\ Val(cols.activity_level) <= 4)

ProfileNotNull(cols) ==
    /\ cols.user_id # null
    /\ cols.height_cm # null
    /\ cols.weight_kg # null
    /\ cols.activity_level # null
    /\ cols.diabetic_type # null

ProfileConstraints(cols) ==
    /\ ProfileNotNull(cols)
    /\ ProfileCheckActivity(cols)
    /\ ForeignKeyHolds(cols.user_id)

\* The constraints of user_preferences, meal_logs and chat_history on the
\* owner column.
OwnedConstraints(row) ==
    /\ row.user_id # null
    /\ ForeignKeyHolds(row.user_id)

\* A foreign key declared without ON DELETE CASCADE and not enforced.
NoCascade(table, id) == table

\* ON DELETE CASCADE: the rows of a table that survive the deletion of a user.
Cascade(table, id) == {r \in table : r.user_id # Some(id)}

ProfileRow(id, cols) ==
    [id |-> id, user_id |-> cols.user_id, height_cm |-> cols.height_cm,
     weight_kg |-> cols.weight_kg, activity_level |-> cols.activity_level,
     exercise_freq_per_week |-> cols.exercise_freq_per_week,
     diabetic_type |-> cols.diabetic_type]

InsertUser(id, email) ==
    LET row == [id |-> id, email |-> email]
    IN  /\ IF PrimaryKeyFree(users, id) /\ UsersConstraints(row)
           THEN users' = users \cup {row} /\ sqlResult' = "ok"
           ELSE UNCHANGED users /\ sqlResult' = "rejected"
        /\ UNCHANGED <<user_health_profiles, user_preferences, meal_logs, chat_history>>
        /\ UNCHANGED <<appVars, chatVars>>

DeleteUser(id) ==
    /\ \E u \in users : u.id = id
    /\ users' = {u \in users : u.id # id}
    /\ user_health_profiles' = Cascade(user_health_profiles, id)
    /\ user_preferences' = Cascade(user_preferences, id)
    /\ meal_logs' = Cascade(meal_logs, id)
    /\ chat_history' = Cascade(chat_history, id)
    /\ sqlResult' = IF \E r \in user_health_profiles \cup user_preferences
                                \cup meal_logs \cup chat_history : r.user_id = Some(id)
                    THEN "cascaded" ELSE "ok"
    /\ UNCHANGED <<appVars, chatVars>>

\* INSERT INTO user_health_profiles; omitExercise is an INSERT that names no
\* exercise_freq_per_week, which then takes DEFAULT 0.
InsertProfile(id, columns, omitExercise) ==
    LET cols == IF omitExercise
                THEN [columns EXCEPT !.exercise_freq_per_week = <<0>>]
                ELSE columns
    IN  /\ IF PrimaryKeyFree(user_health_profiles, id) /\ ProfileConstraints(cols)
           THEN /\ user_health_profiles' = user_health_profiles \cup {ProfileRow(id, cols)}
                /\ sqlResult' = "ok"
           ELSE UNCHANGED user_health_profiles /\ sqlResult' = "rejected"
        /\ UNCHANGED <<users, user_preferences, meal_logs, chat_history>>
        /\ UNCHANGED <<appVars, chatVars>>

\* UPDATE user_health_profiles SET ... WHERE id = id.
UpdateProfile(id, cols) ==
    /\ \E r \in user_health_profiles : r.id = id
    /\ IF ProfileConstraints(cols)
       THEN /\ user_health_profiles' =
                 {r \in user_health_profiles : r.id # id} \cup {ProfileRow(id, cols)}
            /\ sqlResult' = "ok"
       ELSE UNCHANGED user_health_profiles /\ sqlResult' = "rejected"
    /\ UNCHANGED <<users, user_preferences, meal_logs, chat_history>>
    /\ UNCHANGED <<appVars, chatVars>>

DeleteProfile(id) ==
    /\ \E r \in user_health_profiles : r.id = id
    /\ user_health_profiles' = {r \in user_health_profiles : r.id # id}
    /\ sqlResult' = "ok"
    /\ UNCHANGED <<users, user_preferences, meal_logs, chat_history>>
    /\ UNCHANGED <<appVars, chatVars>>

InsertPreferences(id, user_id) ==
    LET row == [id |-> id, user_id |-> user_id]
    IN  /\ IF PrimaryKeyFree(user_preferences, id) /\ OwnedConstraints(row)
           THEN user_preferences' = user_preferences \cup {row} /\ sqlResult' = "ok"
           ELSE UNCHANGED user_preferences /\ sqlResult' = "rejected"
        /\ UNCHANGED <<users, user_health_profiles, meal_logs, chat_history>>
        /\ UNCHANGED <<appVars, chatVars>>

InsertMealLog(id, user_id) ==
    LET row == [id |-> id, user_id |-> user_id]
    IN  /\ IF PrimaryKeyFree(meal_logs, id) /\ OwnedConstraints(row)
           THEN meal_logs' = meal_logs \cup {row} /\ sqlResult' = "ok"
           ELSE UNCHANGED meal_logs /\ sqlResult' = "rejected"
        /\ UNCHANGED <<users, user_health_profiles, user_preferences, chat_history>>
        /\ UNCHANGED <<appVars, chatVars>>

InsertChatHistory(id, user_id) ==
    LET row == [id |-> id, user_id |-> user_id]
    IN  /\ IF PrimaryKeyFree(chat_history, id) /\ OwnedConstraints(row)
           THEN chat_history' = chat_history \cup {row} /\ sqlResult' = "ok"
           ELSE UNCHANGED chat_history /\ sqlResult' = "rejected"
        /\ UNCHANGED <<users, user_health_profiles, user_preferences, meal_logs>>
        /\ UNCHANGED <<appVars, chatVars>>

\* DELETE of one row of user_preferences, meal_logs or chat_history.
DeleteOwned(id) ==
    /\ \/ /\ \E r \in user_preferences : r.id = id
          /\ user_preferences' = {r \in user_preferences : r.id # id}
          /\ UNCHANGED <<meal_logs, chat_history>>
       \/ /\ \E r \in meal_logs : r.id = id
          /\ meal_logs' = {r \in meal_logs : r.id # id}
          /\ UNCHANGED <<user_preferences, chat_history>>
       \/ /\ \E r \in chat_history : r.id = id
          /\ chat_history' = {r \in chat_history : r.id # id}
          /\ UNCHANGED <<user_preferences, meal_logs>>
    /\ sqlResult' = "ok"
    /\ UNCHANGED <<users, user_health_profiles>>
    /\ UNCHANGED <<appVars, chatVars>>

\* Statements over all five tables, with well-formed profiles.
CascadeNext ==
    \/ \E id \in UserIdValues, email \in EmailValues : InsertUser(id, email)
    \/ \E id \in UserIdValues : DeleteUser(id)
    \/ \E id \in RowIds, cols \in SampleProfileColumns : InsertProfile(id, cols, FALSE)
    \/ \E id \in RowIds : DeleteProfile(id)
    \/ \E id \in RowIds, u \in UserIdColumn : InsertPreferences(id, u)
    \/ \E id \in RowIds, u \in UserIdColumn : InsertMealLog(id, u)
    \/ \E id \in RowIds, u \in UserIdColumn : InsertChatHistory(id, u)
    \/ \E id \in RowIds : DeleteOwned(id)

SpecCascade == Init /\ [][CascadeNext]_vars

\* Statements over users and user_health_profiles, with any column values.
ProfilesNext ==
    \/ \E id \in UserIdValues, email \in EmailValues : InsertUser(id, email)
    \/ \E id \in UserIdValues : DeleteUser(id)
    \/ \E id \in RowIds, cols \in ProfileColumns, omit \in BOOLEAN : InsertProfile(id, cols, omit)
    \/ \E id \in RowIds, cols \in ProfileColumns : UpdateProfile(id, cols)
    \/ \E id \in RowIds : DeleteProfile(id)

SpecProfiles == Init /\ [][ProfilesNext]_vars

(***************************************************************************)
(* Properties.                                                             *)
(***************************************************************************)

\* C4: whenever healthMetrics is non-null, it is the health_metrics that the
\* registration of the current fullProfile returned.
CachedMetricsMatchProfile ==
    healthMetrics # null =>
        /\ fullProfile # null
        /\ Val(healthMetrics).profile = Val(fullProfile)

\* A second registration, of another care mode than the default, has
\* replaced the metrics of the first.
SecondRegistrationCached ==
    /\ registered = 2
    /\ healthMetrics # null
    /\ lastOp = "register:resolved"
    /\ Val(fullProfile).diabetic_type = "type1"

\* C5: no row of user_health_profiles, user_preferences, meal_logs or
\* chat_history has a user_id that is not the id of a row of users.
Owned(table) ==
    \A r \in table : r.user_id # null /\ \E u \in users : u.id = Val(r.user_id)

NoOrphanRows ==
    /\ Owned(user_health_profiles)
    /\ Owned(user_preferences)
    /\ Owned(meal_logs)
    /\ Owned(chat_history)

\* A user that owned rows has just been deleted, and another user's rows
\* are still there.
CascadeHappened ==
    /\ sqlResult = "cascaded"
    /\ users # {}
    /\ user_health_profiles \cup user_preferences \cup meal_logs \cup chat_history # {}

\* C6: every profile sent to registration has height_cm > 0, weight_kg > 0,
\* activity_level in 1..4 and a diabetic_type of the four-valued enum.
ValidHealthProfile(p) ==
    /\ p.height_cm > 0
    /\ p.weight_kg > 0
    /\ p.activity_level \in 1..4
    /\ p.diabetic_type \in DIABETIC_TYPES

SentProfilesValid ==
    \A i \in 1..Len(registerRequests) : ValidHealthProfile(registerRequests[i])

\* C7, as claimed: every row of user_health_profiles has height_cm > 0,
\* weight_kg > 0, activity_level in 1..4, exercise_freq_per_week >= 0 and a
\* diabetic_type of the four-valued enum.
StoredProfilesValid ==
    \A r \in user_health_profiles :
        /\ r.height_cm # null /\ Val(r.height_cm) > 0
        /\ r.weight_kg # null /\ Val(r.weight_kg) > 0
        /\ r.activity_level # null /\ Val(r.activity_level) \in 1..4
        /\ r.exercise_freq_per_week # null /\ Val(r.exercise_freq_per_week) >= 0
        /\ r.diabetic_type # null /\ Val(r.diabetic_type) \in DIABETIC_TYPES

\* C7, as amended: every row of user_health_profiles has a non-NULL user_id,
\* height_cm, weight_kg and diabetic_type and an activity_level in 1..4, and
\* a rejected INSERT or UPDATE leaves the table unchanged.
StoredProfilesSatisfySchema ==
    [][ /\ \A r \in user_health_profiles' :
              /\ r.user_id # null
              /\ r.height_cm # null
              /\ r.weight_kg # null
              /\ r.diabetic_type # null
              /\ r.activity_level # null /\ Val(r.activity_level) \in 1..4
        /\ sqlResult' = "rejected" => user_health_profiles' = user_health_profiles
      ]_vars

\* A statement on a table that holds a row at the upper end of the CHECK has
\* been rejected.
ProfileStatementRejected ==
    /\ sqlResult = "rejected"
    /\ \E r \in user_health_profiles : Val(r.activity_level) = 4

\* C8: at most one register request is in flight at a time, and a Continue
\* that App accepts with a pending profile sends exactly one.
OneRegisterAtATime ==
    [][ /\ Len(registerRequests') <= 1
        /\ (lastOp' = "handleCareModeSelect:register" /\ lastOp # lastOp')
              => Len(registerRequests') = Len(registerRequests) + 1
      ]_vars

\* A register request is in flight while the user has gone back to the form.
RegisterInFlightOnForm ==
    /\ Len(registerRequests) = 1
    /\ loading
    /\ currentStep = STEPS.PROFILE

\* C9: the meal plan held in mealPlan does not exceed the user's
\* daily_carbs_limit.
StoredMealPlanWithinLimit ==
    (mealPlan # null /\ healthMetrics # null) =>
        totalCarbs(Val(mealPlan)) <= Val(healthMetrics).daily_carbs_limit

\* The details the server itself sends with a failed registration.
ServerDetails == {Some("Invalid profile"), Some("Resource exhausted")}

\* What a failed register request leaves alone.
RegisterFailureFrame ==
    /\ currentStep' = STEPS.CARE_MODE
    /\ UNCHANGED <<userId, healthMetrics, mealPlan>>
    /\ mealPlanRequests' = mealPlanRequests

\* C10, as claimed: a failed register request sets error to the server's
\* detail or to the registration-failed message, sets currentStep to
\* CARE_MODE, leaves userId, healthMetrics and mealPlan unchanged and sends
\* no meal-plan request.
RegisterFailureShowsServerDetail ==
    [][ (lastOp' = "register:rejected" /\ registerRequests' # registerRequests)
          => /\ error' \in ServerDetails \cup {Some(RegistrationFailedMessage)}
             /\ RegisterFailureFrame
      ]_vars

\* C10, as amended: error becomes the detail as the response interceptor
\* left it (the server's detail, the axios message when the server sent
\* none, or the usage-limit message), or the registration-failed message
\* when there is no response or its body is not an object; the rest as
\* claimed.
RegisterFailureShowsInterceptedDetail ==
    [][ (lastOp' = "register:rejected" /\ registerRequests' # registerRequests)
          => /\ error' \in {Some("Invalid profile"),
                            Some("Request failed with status code 500"),
                            Some(QuotaMessage),
                            Some(RegistrationFailedMessage)}
             /\ RegisterFailureFrame
      ]_vars

\* A registration failed after the user had left the care mode page, and the
\* usage-limit message is shown.
RegisterFailureShown ==
    /\ lastOp = "register:rejected"
    /\ error = Some(QuotaMessage)
    /\ currentStep = STEPS.CARE_MODE
    /\ selectedMode = null

(***************************************************************************)
(* ChatBox, as the chat widget of the Dashboard mounts it: the App holds a *)
(* registered user, the widget is open.                                    *)
(***************************************************************************)
\* The suggestions the ChatBox offers: SUGGESTED_MESSAGES.slice(0, 3).
SUGGESTED_MESSAGES ==
    <<"I want something light", "Any quick meal recommendations?",
      "I am allergic to seafood">>

\* What the user types into the input, and String.prototype.trim on it.
InputTexts == {"", "   ", "dinner?", " dinner? "}

Trim(text) ==
    CASE text = "   " -> ""
      [] text = " dinner? " -> "dinner?"
      [] OTHER -> text

\* The bodies POST /chat/{userId} answers with.
ChatResponses ==
    { [message |-> "Try a salad", type |-> "text", meal_plan |-> null],
      [message |-> "Here is a new plan", type |-> "meal_plan", meal_plan |-> Some(StoredPlan)],
      [message |-> "No plan today", type |-> "meal_plan", meal_plan |-> null] }

ChatErrorMessage == "Sorry, something went wrong. Please try again later."

\* The state variables of the App a ChatBox handler leaves alone.
appUntouchedByChat ==
    <<currentStep, userId, pendingProfile, fullProfile, healthMetrics, loading,
      error, isChatOpen, selectedMode, registerRequests, mealPlanRequests,
      registered>>

\* The widget window takes clicks only while it is open.
ChatBoxClickable == ChatWidgetVisible /\ isChatOpen

ChatOnDashboardInit ==
    /\ currentStep = STEPS.DASHBOARD
    /\ userId = Some(1)
    /\ pendingProfile = Some(StoredProfile)
    /\ fullProfile = Some(StoredProfile)
    /\ healthMetrics = Some(StoredMetrics)
    /\ mealPlan = null
    /\ loading = FALSE
    /\ error = null
    /\ isChatOpen = TRUE
    /\ selectedMode = null
    /\ localStorage = StoredSnapshot(STEPS.DASHBOARD, null)
    /\ registerRequests = <<>>
    /\ mealPlanRequests = <<>>
    /\ registered = 1
    /\ lastOp = "setIsChatOpen"
    /\ DbInit
    /\ ChatInit

\* onChange of the input, which is disabled while loading.
setInput(text) ==
    /\ ChatBoxClickable
    /\ ~chatLoading
    /\ input' = text
    /\ lastOp' = "setInput"
    /\ UNCHANGED <<messages, chatLoading, showSuggestions, chatRequests, chatResets>>
    /\ UNCHANGED <<appUntouchedByChat, mealPlan, localStorage>>
    /\ UNCHANGED dbVars

\* A sendMessage that only looks at the text.
SendIgnoredWhenBlank(messageText) == Trim(messageText) = ""

\* The first statement of sendMessage: whether the call returns at once.
SendIgnored(messageText) == Trim(messageText) = "" \/ chatLoading

\* ChatBox.sendMessage(messageText) up to its await.
sendMessage(messageText) ==
    /\ IF SendIgnored(messageText)
       THEN /\ UNCHANGED <<messages, input, chatLoading, showSuggestions, chatRequests>>
            /\ lastOp' = "sendMessage:ignored"
       ELSE /\ Len(messages) + 2 <= MaxChatMessages
            /\ input' = ""
            /\ showSuggestions' = FALSE
            /\ messages' = Append(messages, [role |-> "user", content |-> Trim(messageText),
                                             isError |-> FALSE])
            /\ chatLoading' = TRUE
            /\ chatRequests' = Append(chatRequests, [user_id |-> Val(userId),
                                                     message |-> Trim(messageText)])
            /\ lastOp' = "sendMessage:request"
    /\ UNCHANGED chatResets
    /\ UNCHANGED <<appUntouchedByChat, mealPlan, localStorage>>
    /\ UNCHANGED dbVars

\* A click on the send button, disabled while loading or on a blank input.
sendClick ==
    /\ ChatBoxClickable
    /\ ~(chatLoading \/ Trim(input) = "")
    /\ sendMessage(input)

\* Enter in the input, which is disabled while loading.
handleKeyPress ==
    /\ ChatBoxClickable
    /\ ~chatLoading
    /\ sendMessage(input)

\* A click on one of the suggestions, shown over an empty conversation.
handleSuggestionClick(suggestion) ==
    /\ ChatBoxClickable
    /\ showSuggestions /\ Len(messages) = 0
    /\ sendMessage(suggestion)

\* sendMessage after its request was answered.
sendMessageResolved(response) ==
    /\ chatRequests # <<>>
    /\ chatRequests' = Tail(chatRequests)
    /\ messages' = Append(messages, [role |-> "assistant", content |-> response.message,
                                     isError |-> FALSE])
    /\ mealPlan' = IF response.type = "meal_plan" /\ response.meal_plan # null
                   THEN Some(Val(response.meal_plan)) ELSE mealPlan
    /\ chatLoading' = FALSE
    /\ lastOp' = "sendMessage:resolved"
    /\ UNCHANGED <<input, showSuggestions, chatResets>>
    /\ UNCHANGED appUntouchedByChat
    /\ localStorage' = RunEffects(localStorage)
    /\ UNCHANGED dbVars

\* sendMessage after its request failed.
sendMessageRejected(rawError) ==
    /\ chatRequests # <<>>
    /\ chatRequests' = Tail(chatRequests)
    /\ LET err == ResponseInterceptor(rawError)
           errorMessage == IF DetailOf(err) # null THEN Val(DetailOf(err))
                           ELSE IF err.message # "" THEN err.message
                           ELSE ChatErrorMessage
       IN  messages' = Append(messages, [role |-> "assistant", content |-> errorMessage,
                                        isError |-> TRUE])
    /\ chatLoading' = FALSE
    /\ lastOp' = "sendMessage:rejected"
    /\ UNCHANGED <<input, showSuggestions, chatResets>>
    /\ UNCHANGED <<appUntouchedByChat, mealPlan, localStorage>>
    /\ UNCHANGED dbVars

\* A click on "Reset conversation", shown when there are messages:
\* ChatBox.handleReset up to its await.
handleResetChat ==
    /\ ChatBoxClickable
    /\ Len(messages) > 0
    /\ chatResets < MaxChatResets
    /\ chatResets' = chatResets + 1
    /\ lastOp' = "resetChat:request"
    /\ UNCHANGED <<messages, input, chatLoading, showSuggestions, chatRequests>>
    /\ UNCHANGED <<appUntouchedByChat, mealPlan, localStorage>>
    /\ UNCHANGED dbVars

\* ChatBox.handleReset after resetChat was answered.
resetChatResolved ==
    /\ chatResets > 0
    /\ chatResets' = chatResets - 1
    /\ messages' = <<>>
    /\ showSuggestions' = TRUE
    /\ lastOp' = "resetChat:resolved"
    /\ UNCHANGED <<input, chatLoading, chatRequests>>
    /\ UNCHANGED <<appUntouchedByChat, mealPlan, localStorage>>
    /\ UNCHANGED dbVars

\* ChatBox.handleReset after resetChat failed: the failure is only logged.
resetChatRejected ==
    /\ chatResets > 0
    /\ chatResets' = chatResets - 1
    /\ lastOp' = "resetChat:rejected"
    /\ UNCHANGED <<messages, input, chatLoading, showSuggestions, chatRequests>>
    /\ UNCHANGED <<appUntouchedByChat, mealPlan, localStorage>>
    /\ UNCHANGED dbVars

ChatNext ==
    \/ \E text \in InputTexts : setInput(text)
    \/ sendClick
    \/ handleKeyPress
    \/ \E n \in DOMAIN SUGGESTED_MESSAGES : handleSuggestionClick(SUGGESTED_MESSAGES[n])
    \/ \E response \in ChatResponses : sendMessageResolved(response)
    \/ \E rawError \in RegisterErrors : sendMessageRejected(rawError)
    \/ handleResetChat
    \/ resetChatResolved
    \/ resetChatRejected
    \/ \E open \in BOOLEAN : setIsChatOpen(open)

SpecChat == ChatOnDashboardInit /\ [][ChatNext]_vars

(***************************************************************************)
(* Meal plan requests, reset, persistence, navigation, chat widget.        *)
(***************************************************************************)
\* C11: whenever a meal-plan request is sent, a registration has succeeded,
\* userId is not null, and the request carries the user_id of the most
\* recent successful registration, which is the userId the App holds.
MealPlanRequestCarriesRegisteredUser ==
    [][Len(mealPlanRequests') > Len(mealPlanRequests) =>
          LET request == mealPlanRequests'[Len(mealPlanRequests')]
          IN  /\ registered' >= 1
              /\ userId' # null
              /\ request.user_id = Val(userId')
              /\ request.user_id = registered']_vars

\* A "Generate Meal Plan" request and a background request are both awaited.
ManualRequestSent ==
    /\ \E i \in 1..Len(mealPlanRequests) :
          mealPlanRequests[i] = [user_id |-> Val(userId), from |-> "manual"]
    /\ lastOp = "handleGenerateMealPlan:request"

\* C12: right after handleReset the App is on START, userId, pendingProfile,
\* fullProfile, healthMetrics, mealPlan and error are null and the chat
\* widget is closed.
ResetResetsToStart ==
    lastOp = "handleReset" =>
        /\ currentStep = STEPS.START
        /\ userId = null
        /\ pendingProfile = null
        /\ fullProfile = null
        /\ healthMetrics = null
        /\ mealPlan = null
        /\ error = null
        /\ ~isChatOpen

\* A reset that had a user, a meal plan and a running request to forget:
\* the effects rewrote the entries of the variables it changed.
ResetFromLoadedState ==
    /\ lastOp = "handleReset"
    /\ localStorage["userId"] # null
    /\ localStorage["mealPlan"] # null
    /\ loading

\* C13: once handleReset and the persistence effects it triggers have run,
\* localStorage holds none of the six diabeatit_ keys.
ResetClearsLocalStorage ==
    lastOp = "handleReset" => \A k \in StorageKeys : localStorage[k] = null

\* What a stored entry stands for: its value, or the default when the entry
\* is missing or is not JSON.
StoredValue(ls, key, defaultValue) ==
    IF ls[key] = null \/ ~Val(ls[key]).ok THEN defaultValue
    ELSE Val(ls[key]).json

HandleBackGoesBackOneStep ==
    [][lastOp' = "handleBack" =>
          /\ currentStep' = (5 :> 4 @@ 4 :> 3 @@ 3 :> 2 @@ 2 :> 1 @@ 1 :> 0 @@ 0 :> 0)[currentStep]
          /\ UNCHANGED <<userId, pendingProfile, fullProfile, healthMetrics,
                         mealPlan, loading, error, isChatOpen>>]_vars

\* handleBack has just left the meal plan view.
BackFromMealPlan ==
    lastOp = "handleBack" /\ currentStep = STEPS.METRICS /\ mealPlan # null

\* C16: the chat widget is open only where it is rendered, that is with a
\* userId and on the Dashboard.
ChatOpenOnlyOnDashboard ==
    isChatOpen => userId # null /\ currentStep = STEPS.DASHBOARD

\* The widget was opened on the Dashboard.
ChatOpened ==
    isChatOpen /\ ChatWidgetVisible /\ lastOp = "setIsChatOpen"

\* C17: a rejected request and an answer whose meal_plan.error is set both
\* leave mealPlan and currentStep and set error; only a good answer replaces
\* mealPlan and moves to MEAL_PLAN; with userId null the handler changes
\* nothing and sends nothing.
GenerateFailureIsReported ==
    [][/\ lastOp' \in {"handleGenerateMealPlan:rejected", "handleGenerateMealPlan:error"} =>
             error' # null /\ UNCHANGED <<mealPlan, currentStep>>
       /\ lastOp' = "handleGenerateMealPlan:resolved" =>
             mealPlan' # null /\ currentStep' = STEPS.MEAL_PLAN /\ UNCHANGED error
       /\ (lastOp' \in {"handleGenerateMealPlan:return", "handleGenerateMealPlan:request"}
             /\ userId = null) =>
             UNCHANGED <<currentStep, userId, pendingProfile, fullProfile,
                         healthMetrics, mealPlan, loading, error, isChatOpen,
                         localStorage, registerRequests, mealPlanRequests>>]_vars

\* The answer's meal_plan.error was set and the metrics view shows the error.
GenerateErrorShown ==
    /\ lastOp = "handleGenerateMealPlan:error"
    /\ error # null
    /\ currentStep = STEPS.METRICS

\* A request that holds the loading flag is awaited.
LoadingRequestPending ==
    \/ registerRequests # <<>>
    \/ \E i \in 1..Len(mealPlanRequests) : mealPlanRequests[i].from = "manual"

\* C18: loading is true while a register request or a "Generate Meal Plan"
\* request is awaited, every response to one sets it to false, and when
\* requests are answered loading always becomes false again.
LoadingCoversRequest ==
    /\ [](LoadingRequestPending => loading)
    /\ [][lastOp' \in {"register:resolved", "register:rejected",
                        "handleGenerateMealPlan:resolved", "handleGenerateMealPlan:error",
                        "handleGenerateMealPlan:rejected"} => ~loading']_vars
    /\ (loading ~> ~loading)

\* The "Generate Meal Plan" request is awaited with the flag set.
GenerateLoading ==
    /\ loading
    /\ \E i \in 1..Len(mealPlanRequests) : mealPlanRequests[i].from = "manual"

\* C19: a sendMessage call on a blank text or while the ChatBox is loading
\* sends nothing and leaves messages; a request is only sent by a ChatBox
\* that is not loading, for a text that is not blank, and the ChatBox awaits
\* at most one request at any time.
ChatSendGuarded ==
    /\ [](Len(chatRequests) <= 1)
    /\ [][/\ lastOp' = "sendMessage:ignored" => UNCHANGED <<messages, chatRequests>>
          /\ lastOp' = "sendMessage:request" =>
                /\ ~chatLoading
                /\ chatRequests'[Len(chatRequests')].message # ""
          /\ Len(chatRequests') > Len(chatRequests) => ~chatLoading /\ chatLoading']_vars

\* A suggestion was clicked while an earlier message was still awaited (the
\* conversation had been reset in between), and was ignored.
SendIgnoredWhileLoading ==
    /\ lastOp = "sendMessage:ignored"
    /\ chatLoading
    /\ Len(chatRequests) = 1


====
